---- MODULE Spec2Model ----
(***************************************************************************)
(* mobx-keystone 0.61.3: a verification model of                           *)
(*   - types.dataModelData (typesDataModelData, DataModelDataTypeInfo),    *)
(*   - the root store registry (registerRootStore, unregisterRootStore,    *)
(*     isRootStore, getRootStore, getRootStoreEnv),                        *)
(*   - the property default rules of `prop` applied by `new`,              *)
(*   - the timestampToDateTransform property transform,                    *)
(*   - the arraySwap standalone action,                                    *)
(*   - the rule that model data changes only inside model actions.         *)
(* Each part has its own specification over the shared variables; the      *)
(* variables of the other parts stay at their initial values.              *)
(***************************************************************************)
EXTENDS Integers, Sequences, FiniteSets, TLC

VARIABLES
    \* ---- types.dataModelData
    descs,                       \* heap of late type checkers, by identity 1..Len(descs)
    cachedDataModelTypeChecker,  \* WeakMap<ModelClass, TypeChecker>: class -> descriptor id, 0 = absent
    issued,                      \* every typesDataModelData call so far: <<arg kind, class, returned id>>
    lastOp,                      \* the last type checker operation and what it did
    \* ---- root stores
    parent,                      \* tree navigation: node -> its parent node, 0 = no parent
    rootStores,                  \* WeakMap<Model, {env}>: model -> entry, NoEntry = absent
    lastCall,                    \* the last root store operation, its outcome and the hooks it ran
    \* ---- model construction
    created,                     \* the last `new Model(data)`: declaration, input, resulting data
    \* ---- property transforms
    dates,                       \* heap of Date objects, by identity 1..Len(dates)
    transformCache,              \* original value -> the Date cached for it, 0 = none
    lastTx,                      \* the last transform operation and its result
    \* ---- arraySwap
    array,                       \* the target array: a sequence of nodes, 0 = undefined
    swap,                        \* the running arraySwap call: position, arguments, locals
    \* ---- model actions
    todo,                        \* the data of a Todo: text and done
    actionDepth,                 \* the number of model actions running (nested)
    lastWrite                    \* the last write to the data and its outcome

vars == <<descs, cachedDataModelTypeChecker, issued, lastOp,
          parent, rootStores, lastCall, created,
          dates, transformCache, lastTx, array, swap, todo, actionDepth, lastWrite>>

typeVars == <<descs, cachedDataModelTypeChecker, issued, lastOp>>
rootVars == <<parent, rootStores, lastCall>>
propVars == <<created>>
txVars == <<dates, transformCache, lastTx>>
swapVars == <<array, swap>>
actionVars == <<todo, actionDepth, lastWrite>>

(***************************************************************************)
(* types.dataModelData                                                     *)
(***************************************************************************)

\* the most late type checkers the heap holds
MaxDescs == 2

\* the data model classes of the application
ModelClasses == {"A", "B", "C"}

\* getDataModelMetadata(modelClazz).dataType: the data type a class declares.
\* "A" declares types.unchecked(), "B" a checked primitive type, "C" none.
dataType(c) ==
    CASE c = "A" -> "unchecked"
      [] c = "B" -> "number"
      [] OTHER   -> "none"

\* the values and paths a check is run on
Values == {"n1", "sA"}
Paths == {<<>>, <<"x">>}

typeOf(v) ==
    CASE v = "n1" -> "number"
      [] v = "sA"           -> "string"
      [] OTHER              -> "undefined"

NoError == [null |-> TRUE]
TypeCheckError(path, expected, value) ==
    [null |-> FALSE, path |-> path, expectedTypeName |-> expected, actualValue |-> value]

\* TypeChecker.check of a resolved standard type
check(tc, value, path) ==
    IF tc = "unchecked" \/ typeOf(value) = tc
    THEN NoError
    ELSE TypeCheckError(path, tc, value)

\* lateTypeChecker(fn, typeInfoGen): a new late type checker; nothing is run yet.
\* kind/cls stand for the closures fn and typeInfoGen it captures.
lateTypeChecker(kind, cls, calls) ==
    [kind |-> kind, cls |-> cls, resolved |-> FALSE, target |-> 0,
     tiDone |-> FALSE, thunkCalls |-> calls]

\* the else branch without cachedDataModelTypeChecker
ForgetfulDataModelDataOfClass(ds, cache, c) ==
    [ds |-> Append(ds, lateTypeChecker("class", c, 0)), cache |-> cache, id |-> Len(ds) + 1]

\* the else branch of typesDataModelData: the class is passed itself. The cached
\* descriptor is returned when there is one; otherwise a late type checker is built
\* and cached under the class.
typesDataModelDataOfClass(ds, cache, c) ==
    IF cache[c] # 0
    THEN [ds |-> ds, cache |-> cache, id |-> cache[c]]
    ELSE [ds |-> Append(ds, lateTypeChecker("class", c, 0)),
          cache |-> [cache EXCEPT ![c] = Len(ds) + 1],
          id |-> Len(ds) + 1]

\* the then branch with the thunk invoked while the descriptor is built
EagerDataModelDataOfThunk(ds, cache, c) ==
    [ds |-> Append(ds, lateTypeChecker("thunk", c, 1)), cache |-> cache, id |-> Len(ds) + 1]

\* the then branch of typesDataModelData: a zero-argument thunk is passed. A late
\* type checker is built around it; the cache is neither read nor written.
typesDataModelDataOfThunk(ds, cache, c) ==
    [ds |-> Append(ds, lateTypeChecker("thunk", c, 0)), cache |-> cache, id |-> Len(ds) + 1]

\* whether a call typesDataModelData(arg) allocates a late type checker
Allocates(ds, cache, kind, c) == kind = "thunk" \/ cache[c] = 0

\* the function fn a late type checker is built from. For a thunk descriptor it is
\* () => typesDataModelData(modelClassFn()): it invokes the thunk and returns the
\* descriptor of the class. For a class descriptor it builds the TypeChecker of the
\* class (next = 0) and throws when the class declares no data type.
lateFn(ds, cache, d) ==
    IF ds[d].kind = "thunk"
    THEN LET r == typesDataModelDataOfClass(ds, cache, ds[d].cls)
         IN [ds |-> [r.ds EXCEPT ![d].thunkCalls = @ + 1],
             cache |-> r.cache, ok |-> TRUE, next |-> r.id, invoked |-> 1]
    ELSE IF dataType(ds[d].cls) = "none"
    THEN [ds |-> ds, cache |-> cache, ok |-> FALSE, next |-> 0, invoked |-> 0]
    ELSE [ds |-> ds, cache |-> cache, ok |-> TRUE, next |-> 0, invoked |-> 0]

\* ltc(): calling a late type checker returns its cached target, or runs fn and
\* caches what it returned
lateCall(ds, cache, d) ==
    IF ds[d].resolved
    THEN [ds |-> ds, cache |-> cache, ok |-> TRUE, next |-> ds[d].target, invoked |-> 0]
    ELSE LET r == lateFn(ds, cache, d)
         IN IF r.ok
            THEN [r EXCEPT !.ds = [r.ds EXCEPT ![d].resolved = TRUE, ![d].target = r.next]]
            ELSE r

\* resolveTypeChecker(d): follow late type checkers until a TypeChecker is reached
resolveTypeChecker(ds, cache, d) ==
    LET s1 == lateCall(ds, cache, d)
    IN IF ds[d].kind = "class"
       THEN [ds |-> s1.ds, cache |-> s1.cache, ok |-> s1.ok, cls |-> ds[d].cls,
             invoked |-> s1.invoked]
       ELSE LET s2 == lateCall(s1.ds, s1.cache, s1.next)
            IN [ds |-> s2.ds, cache |-> s2.cache, ok |-> s2.ok, cls |-> ds[d].cls,
                invoked |-> s1.invoked + s2.invoked]

\* a check that passes every value
UncheckedDataModelData(c, value, path) == NoError

\* the check function of the TypeChecker of data model class c
dataModelDataCheck(c, value, path) ==
    LET resolvedTc == dataType(c)
    IN IF resolvedTc # "unchecked"
       THEN check(resolvedTc, value, path)
       ELSE NoError

\* new DataModelDataTypeInfo(thisType, modelClass)
DataModelDataTypeInfo(d, c) == [thisType |-> d, modelClass |-> c]

\* the typeInfoGen a descriptor is built with: for a thunk descriptor
\* (t) => new DataModelDataTypeInfo(t, modelClassFn()), which invokes the thunk
typeInfoGen(ds, d) ==
    [info |-> DataModelDataTypeInfo(d, ds[d].cls),
     invoked |-> IF ds[d].kind = "thunk" THEN 1 ELSE 0]

\* the typeInfo getter of a late type checker: typeInfoGen runs once per descriptor
cachedTypeInfoGen(ds, d) ==
    IF ds[d].tiDone
    THEN [ds |-> ds, info |-> DataModelDataTypeInfo(d, ds[d].cls), invoked |-> 0]
    ELSE LET r == typeInfoGen(ds, d)
         IN [ds |-> [ds EXCEPT ![d].tiDone = TRUE, ![d].thunkCalls = @ + r.invoked],
             info |-> r.info, invoked |-> r.invoked]

NoOp ==
    [op |-> "none", d |-> 0, kind |-> "", cls |-> "", value |-> "undef", path |-> <<>>,
     result |-> "none", error |-> NoError, wasResolved |-> FALSE, wasTiDone |-> FALSE,
     hit |-> FALSE, invoked |-> 0]

TypesInit ==
    /\ descs = <<>>
    /\ cachedDataModelTypeChecker = [c \in ModelClasses |-> 0]
    /\ issued = {}
    /\ lastOp = NoOp

\* typesDataModelData(modelClass): kind = "class" passes the class c itself,
\* kind = "thunk" passes () => c
typesDataModelData(kind, c) ==
    /\ Allocates(descs, cachedDataModelTypeChecker, kind, c) => Len(descs) < MaxDescs
    /\ LET r == IF kind = "thunk"
                THEN typesDataModelDataOfThunk(descs, cachedDataModelTypeChecker, c)
                ELSE typesDataModelDataOfClass(descs, cachedDataModelTypeChecker, c)
       IN /\ descs' = r.ds
          /\ cachedDataModelTypeChecker' = r.cache
          /\ issued' = issued \cup {<<kind, c, r.id>>}
          /\ lastOp' = [NoOp EXCEPT !.op = "build", !.d = r.id, !.kind = kind, !.cls = c,
                                    !.result = "returned",
                                    !.hit = (Len(r.ds) = Len(descs)),
                                    !.invoked = r.ds[r.id].thunkCalls]

\* resolveTypeChecker(d).check(value, path)
Check(d, value, path) ==
    /\ d \in 1..Len(descs)
    /\ (descs[d].kind = "thunk" /\ ~descs[d].resolved
            /\ cachedDataModelTypeChecker[descs[d].cls] = 0) => Len(descs) < MaxDescs
    /\ LET r == resolveTypeChecker(descs, cachedDataModelTypeChecker, d)
       IN /\ descs' = r.ds
          /\ cachedDataModelTypeChecker' = r.cache
          /\ lastOp' = [NoOp EXCEPT !.op = "check", !.d = d, !.kind = descs[d].kind,
                            !.cls = r.cls, !.value = value, !.path = path,
                            !.result = IF r.ok THEN "returned" ELSE "failure",
                            !.error = IF r.ok THEN dataModelDataCheck(r.cls, value, path)
                                      ELSE NoError,
                            !.wasResolved = descs[d].resolved,
                            !.wasTiDone = descs[d].tiDone,
                            !.invoked = r.invoked]
    /\ UNCHANGED issued

\* reading d.typeInfo
TypeInfoRead(d) ==
    /\ d \in 1..Len(descs)
    /\ LET r == cachedTypeInfoGen(descs, d)
       IN /\ descs' = r.ds
          /\ lastOp' = [NoOp EXCEPT !.op = "typeInfo", !.d = d, !.kind = descs[d].kind,
                            !.cls = r.info.modelClass,
                            !.result = "returned",
                            !.wasResolved = descs[d].resolved,
                            !.wasTiDone = descs[d].tiDone,
                            !.invoked = r.invoked]
    /\ UNCHANGED <<cachedDataModelTypeChecker, issued>>

(***************************************************************************)
(* Root stores                                                             *)
(***************************************************************************)

\* the number of model instances of the application
NumModels == 2

Models == 1..NumModels
\* a tweaked tree node that is not a model (an array or a plain object node)
ArrayNode == NumModels + 1
\* an object that was never tweaked
PlainValue == NumModels + 2
TreeNodes == Models \cup {ArrayNode}
Targets == TreeNodes \cup {PlainValue}

\* env values a caller may pass: two plain objects, and values that are no plain object
PlainEnvs == {"E1", "E2"}
OtherEnvs == {"undefined", "number", "array"}
\* the object literal {} of `env: {}`
EmptyEnv == "{}"
\* the options argument: omitted, {} without an env key, or { env: e }
NoOptions == [given |-> FALSE, hasEnv |-> FALSE, env |-> "undefined"]
OptionsSet ==
    {NoOptions, [given |-> TRUE, hasEnv |-> FALSE, env |-> "undefined"]}
        \cup {[given |-> TRUE, hasEnv |-> TRUE, env |-> e] : e \in PlainEnvs \cup OtherEnvs}

\* rootStores.get(model) of a model that has no entry
NoEntry == "<absent>"

isModel(v) == v \in Models
isTweakedObject(v) == v \in TreeNodes
isPlainObject(v) == v \in PlainEnvs \cup {EmptyEnv}

getParent(par, n) == par[n]

RECURSIVE getRoot(_, _)
getRoot(par, n) == IF par[n] = 0 THEN n ELSE getRoot(par, par[n])

\* the nodes of the subtree of n, n included
RECURSIVE isUnder(_, _, _)
isUnder(par, n, top) ==
    IF n = top THEN TRUE ELSE IF par[n] = 0 THEN FALSE ELSE isUnder(par, par[n], top)
subtree(par, top) == {n \in TreeNodes : isUnder(par, n, top)}

\* const opts = { env: {}, ...options }
optsEnv(options) ==
    IF options.given /\ options.hasEnv THEN options.env ELSE EmptyEnv

\* rootStores.has(model)
isRootStore(rs, model) == rs[model] # NoEntry

\* the checks of registerRootStore without the rootStores.has(model) check
ChecksWithoutRegistered(rs, par, model, options) ==
    IF ~isModel(model) THEN "a root store must be a model"
    ELSE IF getParent(par, model) # 0 THEN "a root store must not have a parent"
    ELSE IF ~isPlainObject(optsEnv(options)) THEN "env must be a plain object or undefined"
    ELSE "ok"

\* the checks of registerRootStore without the getParent(model) check
ChecksWithoutParent(rs, par, model, options) ==
    IF ~isModel(model) THEN "a root store must be a model"
    ELSE IF isRootStore(rs, model) THEN "model already marked as root store"
    ELSE IF ~isPlainObject(optsEnv(options)) THEN "env must be a plain object or undefined"
    ELSE "ok"

\* the checks of registerRootStore, in order: the failure message, or "ok"
registerRootStoreChecks(rs, par, model, options) ==
    IF ~isModel(model) THEN "a root store must be a model"
    ELSE IF isRootStore(rs, model) THEN "model already marked as root store"
    ELSE IF getParent(par, model) # 0 THEN "a root store must not have a parent"
    ELSE IF ~isPlainObject(optsEnv(options)) THEN "env must be a plain object or undefined"
    ELSE "ok"

\* registerRootStore without rootStores.set
rootStoresSetSkipped(rs, model, options) == rs

\* rootStores.set(model, { env: opts.env })
rootStoresSet(rs, model, options) == [rs EXCEPT ![model] = optsEnv(options)]

\* unregisterRootStore without rootStores.delete
rootStoresDeleteSkipped(rs, model) == rs

\* rootStores.delete(model)
rootStoresDelete(rs, model) == [rs EXCEPT ![model] = NoEntry]

\* attachToRootStore(rootStore, child) calls the onAttachedToRootStore hook of the
\* models under child, parents first. When the hook of `thrower` throws the walk
\* stops there: the hooks that ran are a parents-first prefix ending at thrower.
hookRuns(par, child, thrower) ==
    LET all == subtree(par, child) \cap Models
    IN IF thrower = 0
       THEN {all}
       ELSE {R \in SUBSET all :
                /\ thrower \in R
                /\ \A n \in R : par[n] \in R \/ par[n] \notin all
                /\ \A n \in R : n = thrower \/ ~isUnder(par, n, thrower)}

\* the entry set only once every attach hook has returned
AttachThenSet(rs, model, options, thrower) ==
    IF thrower = 0 THEN rootStoresSet(rs, model, options) ELSE rs

\* rootStores.set(model, ...) followed by attachToRootStore(model, model): the registry
\* the two statements leave, whether or not a hook throws (thrower # 0)
setThenAttach(rs, model, options, thrower) == rootStoresSet(rs, model, options)

NoCall ==
    [op |-> "none", node |-> 0, options |-> NoOptions, result |-> "none",
     message |-> "", value |-> 0, env |-> "undefined", attached |-> {}, detached |-> {}]

RootInit ==
    /\ parent = [n \in TreeNodes |-> 0]
    /\ rootStores = [n \in Targets |-> NoEntry]
    /\ lastCall = NoCall

\* registerRootStore(model, options); thrower is the model whose attach hook throws, 0 = none
registerRootStore(model, options, thrower) ==
    LET msg == registerRootStoreChecks(rootStores, parent, model, options)
    IN IF msg # "ok"
       THEN /\ thrower = 0
            /\ lastCall' = [NoCall EXCEPT !.op = "registerRootStore", !.node = model,
                                !.options = options, !.result = "failure", !.message = msg]
            /\ UNCHANGED <<parent, rootStores>>
       ELSE /\ thrower \in {0} \cup (subtree(parent, model) \cap Models)
            /\ rootStores' = setThenAttach(rootStores, model, options, thrower)
            /\ \E ran \in hookRuns(parent, model, thrower) :
                 lastCall' = [NoCall EXCEPT !.op = "registerRootStore", !.node = model,
                                !.options = options,
                                !.result = IF thrower = 0 THEN "returned" ELSE "hook threw",
                                !.value = IF thrower = 0 THEN model ELSE 0,
                                !.attached = ran]
            /\ UNCHANGED parent

\* unregisterRootStore(model)
unregisterRootStore(model) ==
    IF ~isRootStore(rootStores, model)
    THEN /\ lastCall' = [NoCall EXCEPT !.op = "unregisterRootStore", !.node = model,
                             !.result = "failure", !.message = "not a root store"]
         /\ UNCHANGED <<parent, rootStores>>
    ELSE /\ rootStores' = rootStoresDelete(rootStores, model)
         /\ lastCall' = [NoCall EXCEPT !.op = "unregisterRootStore", !.node = model,
                             !.result = "returned",
                             !.detached = subtree(parent, model) \cap Models]
         /\ UNCHANGED parent

\* getRootStore without getRoot
getRootStoreOfTarget(rs, par, target) == IF isRootStore(rs, target) THEN target ELSE 0

\* getRootStore(target): the value returned, 0 = undefined
getRootStoreValue(rs, par, target) ==
    LET root == getRoot(par, target)
    IN IF isRootStore(rs, root) THEN root ELSE 0

getRootStore(target) ==
    /\ IF ~isTweakedObject(target)
       THEN lastCall' = [NoCall EXCEPT !.op = "getRootStore", !.node = target,
                             !.result = "failure",
                             !.message = "getRootStore must be a tree node"]
       ELSE lastCall' = [NoCall EXCEPT !.op = "getRootStore", !.node = target,
                             !.result = "returned",
                             !.value = getRootStoreValue(rootStores, parent, target)]
    /\ UNCHANGED <<parent, rootStores>>

\* getRootStoreEnv without getRoot
getRootStoreEnvOfTarget(rs, par, target) ==
    IF rs[target] # NoEntry THEN rs[target] ELSE "undefined"

\* getRootStoreEnv(target): the value returned, "undefined" when there is none
getRootStoreEnvValue(rs, par, target) ==
    LET root == getRoot(par, target)
        rootStoreData == rs[root]
    IN IF rootStoreData # NoEntry THEN rootStoreData ELSE "undefined"

getRootStoreEnv(target) ==
    /\ IF ~isTweakedObject(target)
       THEN lastCall' = [NoCall EXCEPT !.op = "getRootStoreEnv", !.node = target,
                             !.result = "failure",
                             !.message = "getRootStoreEnv must be a tree node"]
       ELSE lastCall' = [NoCall EXCEPT !.op = "getRootStoreEnv", !.node = target,
                             !.result = "returned",
                             !.env = getRootStoreEnvValue(rootStores, parent, target)]
    /\ UNCHANGED <<parent, rootStores>>

\* a tree mutation that inserts child (a node without parent) under newParent
attachChild(child, newParent) ==
    /\ child # newParent
    /\ parent[child] = 0
    /\ ~isRootStore(rootStores, child)
    /\ getRoot(parent, newParent) # child
    /\ parent' = [parent EXCEPT ![child] = newParent]
    /\ lastCall' = [NoCall EXCEPT !.op = "attach", !.node = child, !.result = "returned",
                        !.attached = IF isRootStore(rootStores, getRoot(parent, newParent))
                                     THEN subtree(parent, child) \cap Models ELSE {}]
    /\ UNCHANGED rootStores

\* a tree mutation that removes child from its parent
detachChild(child) ==
    /\ parent[child] # 0
    /\ parent' = [parent EXCEPT ![child] = 0]
    /\ lastCall' = [NoCall EXCEPT !.op = "detach", !.node = child, !.result = "returned",
                        !.detached = IF isRootStore(rootStores, getRoot(parent, child))
                                     THEN subtree(parent, child) \cap Models ELSE {}]
    /\ UNCHANGED rootStores

(***************************************************************************)
(* Model construction: property defaults                                   *)
(***************************************************************************)

\* the marker of a property declared without a default
noDefaultValue == "<noDefaultValue>"

\* prop<T>(), prop(defaultValue), prop(defaultFn): the declaration a property keeps
prop(defaultValue, defaultFn) == [defaultValue |-> defaultValue, defaultFn |-> defaultFn]

\* the values a property of the initial data holds
PropValues == {"undefined", "null", "false", "true", "buy milk"}

\* the data model classes: the Todo of the documentation, and a model whose
\* text has a default value generator
Todo == [text |-> prop(noDefaultValue, noDefaultValue), done |-> prop("false", noDefaultValue)]
Note == [text |-> prop(noDefaultValue, "generated"), done |-> prop(noDefaultValue, noDefaultValue)]
Draft == [text |-> prop("", noDefaultValue), done |-> prop(noDefaultValue, "generated")]
DataModels == {Todo, Note, Draft}

\* hasDefault / default of DataModelDataTypeInfo.props: what a declaration defaults to
propDefault(propData) ==
    IF propData.defaultFn # noDefaultValue
    THEN [hasDefault |-> TRUE, default |-> propData.defaultFn]
    ELSE IF propData.defaultValue # noDefaultValue
    THEN [hasDefault |-> TRUE, default |-> propData.defaultValue]
    ELSE [hasDefault |-> FALSE, default |-> "undefined"]

\* new without the defaults
IgnoreDefault(propData, passed) == passed

\* the value a property gets from `new` over a plain object

applyDefault(propData, passed) ==
    IF passed \in {"undefined", "null"}
    THEN IF propData.defaultFn # noDefaultValue THEN propData.defaultFn
         ELSE IF propData.defaultValue # noDefaultValue THEN propData.defaultValue
         ELSE passed
    ELSE passed

\* new M(data): the data node model.$ wraps. A data tree node is wrapped as it is;
\* a plain object becomes a tree node with the defaults applied.
newDataModelData(modelProps, data, isTreeNode) ==
    IF isTreeNode
    THEN data
    ELSE [p \in DOMAIN modelProps |-> applyDefault(modelProps[p], data[p])]

NoCreation ==
    [op |-> "none", props |-> Todo, data |-> [text |-> "undefined", done |-> "undefined"],
     isTreeNode |-> FALSE, result |-> [text |-> "undefined", done |-> "undefined"]]

PropsInit == created = NoCreation

newDataModel(modelProps, data, isTreeNode) ==
    created' = [op |-> "new", props |-> modelProps, data |-> data, isTreeNode |-> isTreeNode,
                result |-> newDataModelData(modelProps, data, isTreeNode)]

PropsNext ==
    \E modelProps \in DataModels, data \in [{"text", "done"} -> PropValues],
       isTreeNode \in BOOLEAN :
        newDataModel(modelProps, data, isTreeNode)

(***************************************************************************)
(* Property transforms: timestampToDateTransform                           *)
(***************************************************************************)

\* numbers are counted in halves, so that 3 stands for 1.5: the largest number used
MaxHalves == 3
\* the most Date objects the heap holds
MaxDates == 2

\* the number NaN
NaN == -1
Numbers == (0..MaxHalves) \cup {NaN}

\* a === b on numbers
strictEquals(a, b) == a # NaN /\ b # NaN /\ a = b

\* a valid timestamp: a whole number of milliseconds
isValidTimestamp(x) == x # NaN /\ x % 2 = 0

\* the time value new Date(value) keeps: the integral part of value, NaN for NaN
TimeClip(value) == IF value = NaN THEN NaN ELSE (value \div 2) * 2

\* new ImmutableDate(value) and new Date(value)
ImmutableDate(value) == [immutable |-> TRUE, time |-> TimeClip(value)]
Date(value) == [immutable |-> FALSE, time |-> TimeClip(value)]

\* every Date passes for an ImmutableDate
CacheAnyDate(date) == TRUE

\* transformedValue instanceof ImmutableDate
instanceofImmutableDate(date) == date.immutable

\* transform({ originalValue, cachedTransformedValue }):
\* cachedTransformedValue ?? new ImmutableDate(originalValue)
transform(ds, cache, originalValue) ==
    LET cachedTransformedValue == cache[originalValue]
    IN IF cachedTransformedValue # 0
       THEN [ds |-> ds, id |-> cachedTransformedValue]
       ELSE [ds |-> Append(ds, ImmutableDate(originalValue)), id |-> Len(ds) + 1]

\* untransform({ transformedValue, cacheTransformedValue }): +transformedValue, after
\* caching an ImmutableDate as the transformed value of that original value
untransform(ds, cache, id) ==
    LET value == ds[id].time
    IN [value |-> value,
        cache |-> IF instanceofImmutableDate(ds[id])
                  THEN [cache EXCEPT ![value] = id]
                  ELSE cache]

NoTx == [op |-> "none", x |-> 0, date |-> 0, cached |-> FALSE, result |-> 0]

TxInit ==
    /\ dates = <<>>
    /\ transformCache = [x \in Numbers |-> 0]
    /\ lastTx = NoTx

\* untransform(transform(x)) on the property's original value x
roundTrip(x) ==
    /\ transformCache[x] = 0 => Len(dates) < MaxDates
    /\ LET t == transform(dates, transformCache, x)
           u == untransform(t.ds, transformCache, t.id)
       IN /\ dates' = t.ds
          /\ transformCache' = u.cache
          /\ lastTx' = [op |-> "roundTrip", x |-> x, date |-> t.id,
                        cached |-> transformCache[x] # 0, result |-> u.value]

\* the property is assigned a Date the caller built: untransform(date)
assignDate(immutable, value) ==
    /\ Len(dates) < MaxDates
    /\ LET ds == Append(dates, IF immutable THEN ImmutableDate(value) ELSE Date(value))
           u == untransform(ds, transformCache, Len(ds))
       IN /\ dates' = ds
          /\ transformCache' = u.cache
          /\ lastTx' = [op |-> "assign", x |-> value, date |-> Len(ds),
                        cached |-> FALSE, result |-> u.value]

\* date.setTime(value): changes a Date, is refused by an ImmutableDate
setTime(d, value) ==
    /\ d \in 1..Len(dates)
    /\ dates' = IF dates[d].immutable THEN dates
                ELSE [dates EXCEPT ![d].time = TimeClip(value)]
    /\ lastTx' = [op |-> "setTime", x |-> value, date |-> d, cached |-> FALSE,
                  result |-> dates'[d].time]
    /\ UNCHANGED transformCache

(***************************************************************************)
(* arraySwap: a standalone action swapping two elements of an array        *)
(***************************************************************************)

\* the most nodes an array is given
MaxLen == 3

ArrayNodes == 1..MaxLen
\* the value undefined
undefined == 0
\* the indexes arraySwap is called with: inside the array, at its end, and before it
Indexes == (0 - 1)..MaxLen

Min(a, b) == IF a < b THEN a ELSE b
Max(a, b) == IF a > b THEN a ELSE b

\* Array.prototype.splice: the position `start` stands for
actualStart(arr, start) ==
    IF start < 0 THEN Max(Len(arr) + start, 0) ELSE Min(start, Len(arr))

\* const [v] = array.splice(start, 1): the removed element, undefined when none
spliced(arr, start) ==
    IF actualStart(arr, start) < Len(arr) THEN arr[actualStart(arr, start) + 1]
    ELSE undefined

\* array[start] read, the element left in place
SpliceKeeps(arr, start) == arr

\* array.splice(start, 1): the array without the element at `start`
spliceRemove(arr, start) ==
    LET k == actualStart(arr, start)
    IN IF k < Len(arr)
       THEN SubSeq(arr, 1, k) \o SubSeq(arr, k + 2, Len(arr))
       ELSE arr

\* array.splice(start, 0, item): the array with item inserted at `start`
spliceInsert(arr, start, item) ==
    LET k == actualStart(arr, start)
    IN SubSeq(arr, 1, k) \o <<item>> \o SubSeq(arr, k + 1, Len(arr))

NoSwap == [pc |-> "idle", index1 |-> 0, index2 |-> 0, v1 |-> undefined, v2 |-> undefined]

SwapInit ==
    /\ array = <<>>
    /\ swap = NoSwap

\* array.push(node), with a node that has no parent yet
push(node) ==
    /\ swap.pc = "idle"
    /\ Len(array) < MaxLen
    /\ \A i \in 1..Len(array) : array[i] # node
    /\ array' = Append(array, node)
    /\ UNCHANGED swap

\* arraySwap(array, index1, index2) is entered: the indexes are put in order
arraySwap(index1, index2) ==
    /\ swap.pc = "idle"
    /\ Len(array) <= MaxLen
    /\ swap' = [NoSwap EXCEPT !.pc = "ordered",
                              !.index1 = IF index2 < index1 THEN index2 ELSE index1,
                              !.index2 = IF index2 < index1 THEN index1 ELSE index2]
    /\ UNCHANGED array

\* const [v1] = array.splice(index1, 1)
spliceV1 ==
    /\ swap.pc = "ordered"
    /\ array' = spliceRemove(array, swap.index1)
    /\ swap' = [swap EXCEPT !.pc = "removed1", !.v1 = spliced(array, swap.index1)]

\* const [v2] = array.splice(index2 - 1, 1)
spliceV2 ==
    /\ swap.pc = "removed1"
    /\ array' = spliceRemove(array, swap.index2 - 1)
    /\ swap' = [swap EXCEPT !.pc = "removed2", !.v2 = spliced(array, swap.index2 - 1)]

\* array.splice(index1, 0, v2)
insertV2 ==
    /\ swap.pc = "removed2"
    /\ array' = spliceInsert(array, swap.index1, swap.v2)
    /\ swap' = [swap EXCEPT !.pc = "inserted2"]

\* array.splice(index2, 0, v1), and the action returns
insertV1 ==
    /\ swap.pc = "inserted2"
    /\ array' = spliceInsert(array, swap.index2, swap.v1)
    /\ swap' = [swap EXCEPT !.pc = "idle"]

(***************************************************************************)
(* Model actions: the data of a model changes only inside an action        *)
(***************************************************************************)

\* the deepest nesting of running actions
MaxDepth == 2

Texts == {"a", "b"}
propValues(name) == IF name = "done" THEN BOOLEAN ELSE Texts

ActionContextError == "ActionContextError"

\* the action context is active
isActionContextActive(depth) == depth > 0

\* a model action called without establishing a context
NoContext(depth) == depth

\* @modelAction: the context the body of a model action runs in
modelActionContext(depth) == depth + 1

\* this.$[name] = value, also written this[name] = value, at the given depth
assign(depth, data, name, value) ==
    IF isActionContextActive(depth)
    THEN [result |-> "ok", data |-> [data EXCEPT ![name] = value]]
    ELSE [result |-> ActionContextError, data |-> data]

NoWrite == [op |-> "none", name |-> "done", value |-> "", depth |-> 0,
            result |-> "none", before |-> [text |-> "a", done |-> FALSE]]

\* const todo = new Todo({ text: "a" }), made a tree node
ActionInit ==
    /\ todo = [text |-> "a", done |-> FALSE]
    /\ actionDepth = 0
    /\ lastWrite = NoWrite

\* todo.$[name] = value written directly, by code inside or outside an action
directAssign(name, value) ==
    LET w == assign(actionDepth, todo, name, value)
    IN /\ todo' = w.data
       /\ lastWrite' = [op |-> "assign", name |-> name, value |-> value,
                        depth |-> actionDepth, result |-> w.result, before |-> todo]
       /\ UNCHANGED actionDepth

\* todo.setDone(done): the model action runs this.done = done in its own context
setDone(done) ==
    LET w == assign(modelActionContext(actionDepth), todo, "done", done)
    IN /\ todo' = w.data
       /\ lastWrite' = [op |-> "setDone", name |-> "done", value |-> done,
                        depth |-> actionDepth, result |-> w.result, before |-> todo]
       /\ UNCHANGED actionDepth

\* a model action with a longer body is entered
enterAction ==
    /\ actionDepth < MaxDepth
    /\ actionDepth' = modelActionContext(actionDepth)
    /\ UNCHANGED <<todo, lastWrite>>

\* the innermost running action returns
exitAction ==
    /\ actionDepth > 0
    /\ actionDepth' = actionDepth - 1
    /\ UNCHANGED <<todo, lastWrite>>


(***************************************************************************)
(* Specifications                                                          *)
(***************************************************************************)

Init == TypesInit /\ RootInit /\ PropsInit /\ TxInit /\ SwapInit /\ ActionInit

\* the root store registry
Next ==
    \/ /\ \E model \in Targets, options \in OptionsSet, thrower \in {0} \cup Models :
             registerRootStore(model, options, thrower)
       /\ UNCHANGED <<typeVars, propVars, txVars, swapVars, actionVars>>
    \/ /\ \E model \in Targets : unregisterRootStore(model)
       /\ UNCHANGED <<typeVars, propVars, txVars, swapVars, actionVars>>
    \/ /\ \E target \in Targets : getRootStore(target)
       /\ UNCHANGED <<typeVars, propVars, txVars, swapVars, actionVars>>
    \/ /\ \E target \in Targets : getRootStoreEnv(target)
       /\ UNCHANGED <<typeVars, propVars, txVars, swapVars, actionVars>>
    \/ /\ \E child \in TreeNodes, newParent \in TreeNodes : attachChild(child, newParent)
       /\ UNCHANGED <<typeVars, propVars, txVars, swapVars, actionVars>>
    \/ /\ \E child \in TreeNodes : detachChild(child)
       /\ UNCHANGED <<typeVars, propVars, txVars, swapVars, actionVars>>
Spec == Init /\ [][Next]_vars

\* types.dataModelData
TypesStep ==
    \/ /\ \E c \in ModelClasses : typesDataModelData("class", c)
       /\ UNCHANGED <<rootVars, propVars, txVars, swapVars, actionVars>>
    \/ /\ \E c \in ModelClasses : typesDataModelData("thunk", c)
       /\ UNCHANGED <<rootVars, propVars, txVars, swapVars, actionVars>>
    \/ /\ \E d \in 1..MaxDescs, value \in Values, path \in Paths : Check(d, value, path)
       /\ UNCHANGED <<rootVars, propVars, txVars, swapVars, actionVars>>
    \/ /\ \E d \in 1..MaxDescs : TypeInfoRead(d)
       /\ UNCHANGED <<rootVars, propVars, txVars, swapVars, actionVars>>
TypesSpec == Init /\ [][TypesStep]_vars

\* model construction
PropsStep == PropsNext /\ UNCHANGED <<typeVars, rootVars, txVars, swapVars, actionVars>>
PropsSpec == Init /\ [][PropsStep]_vars

\* property transforms
TxStep ==
    \/ /\ \E x \in Numbers : roundTrip(x)
       /\ UNCHANGED <<typeVars, rootVars, propVars, swapVars, actionVars>>
    \/ /\ \E immutable \in BOOLEAN, value \in Numbers : assignDate(immutable, value)
       /\ UNCHANGED <<typeVars, rootVars, propVars, swapVars, actionVars>>
    \/ /\ \E d \in 1..MaxDates, value \in Numbers : setTime(d, value)
       /\ UNCHANGED <<typeVars, rootVars, propVars, swapVars, actionVars>>
TxSpec == Init /\ [][TxStep]_vars

\* arraySwap
SwapStep ==
    \/ /\ \E node \in ArrayNodes : push(node)
       /\ UNCHANGED <<typeVars, rootVars, propVars, txVars, actionVars>>
    \/ /\ \E index1 \in Indexes, index2 \in Indexes : arraySwap(index1, index2)
       /\ UNCHANGED <<typeVars, rootVars, propVars, txVars, actionVars>>
    \/ /\ spliceV1
       /\ UNCHANGED <<typeVars, rootVars, propVars, txVars, actionVars>>
    \/ /\ spliceV2
       /\ UNCHANGED <<typeVars, rootVars, propVars, txVars, actionVars>>
    \/ /\ insertV2
       /\ UNCHANGED <<typeVars, rootVars, propVars, txVars, actionVars>>
    \/ /\ insertV1
       /\ UNCHANGED <<typeVars, rootVars, propVars, txVars, actionVars>>
SwapSpec == Init /\ [][SwapStep]_vars

\* model actions
ActionStep ==
    \/ /\ \E name \in {"text", "done"} : \E value \in propValues(name) :
             directAssign(name, value)
       /\ UNCHANGED <<typeVars, rootVars, propVars, txVars, swapVars>>
    \/ /\ \E done \in BOOLEAN : setDone(done)
       /\ UNCHANGED <<typeVars, rootVars, propVars, txVars, swapVars>>
    \/ /\ enterAction
       /\ UNCHANGED <<typeVars, rootVars, propVars, txVars, swapVars>>
    \/ /\ exitAction
       /\ UNCHANGED <<typeVars, rootVars, propVars, txVars, swapVars>>
ActionSpec == Init /\ [][ActionStep]_vars

(***************************************************************************)
(* Claims                                                                  *)
(***************************************************************************)

\* the step is the call op(node), which lastCall' describes
Called(op, node) == lastCall'.op = op /\ lastCall'.node = node

\* C1 (as stated): every call of typesDataModelData that designates class C, directly
\* or through a thunk, returns one and the same descriptor.
C1_SameDescriptorPerClass ==
    \A e1 \in issued, e2 \in issued : e1[2] = e2[2] => e1[3] = e2[3]

\* C1 (amended): all calls that pass class C itself return one and the same
\* descriptor, the one the cache holds for C; a call that passes a thunk returns a
\* late-bound descriptor of its own, shared with no other call, which once resolved
\* points at the descriptor the cache holds for C.
C1_DirectCallsShareDescriptor ==
    /\ \A e1 \in issued, e2 \in issued :
          (e1[1] = "class" /\ e2[1] = "class" /\ e1[2] = e2[2]) => e1[3] = e2[3]
    /\ \A e \in issued :
          e[1] = "class" => cachedDataModelTypeChecker[e[2]] = e[3]
    /\ \A e \in issued :
          e[1] = "thunk" =>
             /\ \A e2 \in issued \ {e} : e2[3] # e[3]
             /\ descs[e[3]].resolved =>
                   descs[e[3]].target = cachedDataModelTypeChecker[e[2]]

\* C1 witness: a class already asked for through a thunk is passed directly a second time
C1_Witness ==
    /\ lastOp.op = "build" /\ lastOp.kind = "class" /\ lastOp.hit
    /\ \E e \in issued : e[1] = "thunk" /\ e[2] = lastOp.cls

\* C2 (as stated): building a descriptor from a thunk does not invoke the thunk, and
\* once the descriptor has been used (checked or its type info read) no later check
\* or type-info read invokes the thunk again.
C2_ThunkInvokedOnFirstUseOnly ==
    /\ lastOp.op = "build" => lastOp.invoked = 0
    /\ (lastOp.op \in {"check", "typeInfo"} /\ (lastOp.wasResolved \/ lastOp.wasTiDone))
          => lastOp.invoked = 0

\* C2 (amended): building a descriptor from a thunk does not invoke the thunk; the
\* first check invokes it once and caches the resolution, so later checks do not
\* invoke it; independently the first type-info read invokes it once and caches the
\* type info, so later type-info reads do not invoke it: at most two invocations per
\* descriptor, none for a descriptor built from a class.
C2_ThunkLazyCachedPerUse ==
    /\ lastOp.op = "build" => lastOp.invoked = 0
    /\ (lastOp.op = "check" /\ lastOp.wasResolved) => lastOp.invoked = 0
    /\ (lastOp.op = "typeInfo" /\ lastOp.wasTiDone) => lastOp.invoked = 0
    /\ \A d \in 1..Len(descs) :
          descs[d].thunkCalls =
             IF descs[d].kind = "thunk"
             THEN (IF descs[d].resolved THEN 1 ELSE 0) + (IF descs[d].tiDone THEN 1 ELSE 0)
             ELSE 0

\* C2 witness: a repeated check on a thunk descriptor whose thunk ran once for the
\* resolution and once for the type info
C2_Witness ==
    /\ lastOp.op = "check" /\ lastOp.kind = "thunk" /\ lastOp.wasResolved
    /\ lastOp.wasTiDone /\ lastOp.invoked = 0
    /\ descs[lastOp.d].thunkCalls = 2

C4_AlreadyRegisteredFails ==
    [][\A m \in Models :
         (Called("registerRootStore", m) /\ isRootStore(rootStores, m))
         => /\ lastCall'.result = "failure"
            /\ lastCall'.message = "model already marked as root store"
            /\ rootStores' = rootStores
            /\ lastCall'.attached = {}]_vars

\* C4 witness: a second registration of a root store, with another env, has failed and
\* the env of the first registration is still in place
C4_Witness ==
    /\ lastCall.op = "registerRootStore"
    /\ lastCall.message = "model already marked as root store"
    /\ lastCall.options.hasEnv /\ lastCall.options.env = "E2"
    /\ rootStores[lastCall.node] = "E1"

\* C5: registerRootStore(m) on a model that has a parent (and is no root store) fails
\* with 'a root store must not have a parent'; m is not added to the registry and no
\* attach hook runs.
C5_ParentedModelFails ==
    [][\A m \in Models :
         (Called("registerRootStore", m) /\ getParent(parent, m) # 0
             /\ ~isRootStore(rootStores, m))
         => /\ lastCall'.result = "failure"
            /\ lastCall'.message = "a root store must not have a parent"
            /\ rootStores' = rootStores
            /\ ~isRootStore(rootStores', m)
            /\ lastCall'.attached = {}]_vars

\* C5 witness: the registration of a model that is a child has failed
C5_Witness ==
    /\ lastCall.op = "registerRootStore"
    /\ lastCall.message = "a root store must not have a parent"
    /\ lastCall.node \in Models /\ parent[lastCall.node] # 0
    /\ ~isRootStore(rootStores, lastCall.node)

\* C6 (as stated): on a model that could be registered, registerRootStore succeeds when
\* options is omitted, has no env, has env: undefined or has a plain object as env, and
\* fails with 'env must be a plain object or undefined' for every other env, leaving
\* the registry unchanged.
C6_EnvPlainObjectOrUndefined ==
    [][\A m \in Models :
         (Called("registerRootStore", m) /\ getParent(parent, m) = 0
             /\ ~isRootStore(rootStores, m))
         => LET o == lastCall'.options
            IN IF ~o.given \/ ~o.hasEnv \/ o.env = "undefined" \/ o.env \in PlainEnvs
               THEN lastCall'.result # "failure" /\ isRootStore(rootStores', m)
               ELSE /\ lastCall'.result = "failure"
                    /\ lastCall'.message = "env must be a plain object or undefined"
                    /\ rootStores' = rootStores]_vars

\* C7: unregisterRootStore(m) on a value that is not registered fails with 'not a root
\* store', leaves the registry unchanged and runs no detach hook; on a registered m it
\* removes the entry of m, and only that one, so that isRootStore(m) is false afterwards.
C7_UnregisterRootStore ==
    [][\A v \in Targets :
         Called("unregisterRootStore", v)
         => IF ~isRootStore(rootStores, v)
            THEN /\ lastCall'.result = "failure"
                 /\ lastCall'.message = "not a root store"
                 /\ rootStores' = rootStores
                 /\ lastCall'.detached = {}
            ELSE /\ lastCall'.result = "returned"
                 /\ ~isRootStore(rootStores', v)
                 /\ \A o \in Targets \ {v} : rootStores'[o] = rootStores[o]]_vars

\* C7 witness: unregistering a model that is no root store has failed while another
\* model is registered
C7_Witness ==
    /\ lastCall.op = "unregisterRootStore" /\ lastCall.result = "failure"
    /\ lastCall.message = "not a root store"
    /\ lastCall.node \in Models
    /\ \E m \in Models \ {lastCall.node} : isRootStore(rootStores, m)

\* r is the root of the tree of t: an ancestor of t, or t itself, that has no parent
IsRootOf(t, r) == isUnder(parent, t, r) /\ parent[r] = 0

GivenEnv(options) == IF options.given /\ options.hasEnv THEN options.env ELSE EmptyEnv

C9_EnvLookup ==
    /\ \A t \in TreeNodes, r \in TreeNodes :
          IsRootOf(t, r) =>
             getRootStoreEnvValue(rootStores, parent, t) =
                IF isRootStore(rootStores, r) THEN rootStores[r] ELSE "undefined"
    /\ \A m \in Models : isRootStore(rootStores, m) => rootStores[m] # "undefined"
    /\ lastCall.op = "getRootStoreEnv" =>
          IF isTweakedObject(lastCall.node)
          THEN /\ lastCall.result = "returned"
               /\ lastCall.env = getRootStoreEnvValue(rootStores, parent, lastCall.node)
          ELSE lastCall.result = "failure"

C9_EnvStored ==
    \A m \in Models :
       /\ (~isRootStore(rootStores, m) /\ isRootStore(rootStores', m))
          => rootStores'[m] = GivenEnv(lastCall'.options)
       /\ (isRootStore(rootStores, m) /\ isRootStore(rootStores', m))
          => rootStores'[m] = rootStores[m]
       /\ (Called("unregisterRootStore", m) /\ lastCall'.result = "returned")
          => \A t \in subtree(parent', m) :
                getRootStoreEnvValue(rootStores', parent', t) = "undefined"

\* C9: for every tweaked node t whose root is a registered root store,
\* getRootStoreEnv(t) is the env given when that root was registered (the empty plain
\* object when none was given), the same for all nodes of the tree; it is undefined
\* when the root of t is not registered, also after unregisterRootStore.
C9_SharedEnv == []C9_EnvLookup /\ [][C9_EnvStored]_vars

\* C9 witness: getRootStoreEnv of a child has returned the env its root was registered with
C9_Witness ==
    /\ lastCall.op = "getRootStoreEnv" /\ lastCall.result = "returned"
    /\ parent[lastCall.node] # 0
    /\ lastCall.env = "E1"
    /\ \E m \in Models \ {lastCall.node} : rootStores[m] = "E2"

\* C10 (as stated): new gives a property declared with a default (literal or
\* generator) that default when the initial data has null or undefined for it, and
\* the passed value otherwise; a property without default is left as passed.
C10_DefaultsApplied ==
    created.op = "new" =>
       \A p \in DOMAIN created.props :
          created.result[p] =
             IF propDefault(created.props[p]).hasDefault
                   /\ created.data[p] \in {"undefined", "null"}
             THEN propDefault(created.props[p]).default
             ELSE created.data[p]

\* C10 (amended): when new is used over a plain object (not a tree node), a property
\* declared with a default (literal or generator) gets that default when the initial
\* data has null or undefined for it and keeps the passed value otherwise, and a
\* property without default is left as passed; when new is used over a data tree node
\* the data is left as it is. new Todo({ text: "buy milk" }) yields done === false.
C10_DefaultsAppliedToPlainObjects ==
    created.op = "new" =>
       /\ ~created.isTreeNode =>
             \A p \in DOMAIN created.props :
                created.result[p] =
                   IF propDefault(created.props[p]).hasDefault
                         /\ created.data[p] \in {"undefined", "null"}
                   THEN propDefault(created.props[p]).default
                   ELSE created.data[p]
       /\ created.isTreeNode => created.result = created.data
       /\ (created.props = Todo /\ ~created.isTreeNode
              /\ created.data = [text |-> "buy milk", done |-> "undefined"])
          => created.result = [text |-> "buy milk", done |-> "false"]

\* C10 witness: new Todo({ text: "buy milk" })
C10_Witness ==
    /\ created.op = "new" /\ created.props = Todo /\ ~created.isTreeNode
    /\ created.data = [text |-> "buy milk", done |-> "undefined"]
    /\ created.result.done = "false"

\* C11: timestampToDateTransform obeys the round-trip law: for every valid timestamp x
\* untransform(transform(x)) === x, when no transformed value is cached for x and
\* when transform returns the cached one.
C11_RoundTrip ==
    (lastTx.op = "roundTrip" /\ isValidTimestamp(lastTx.x))
       => strictEquals(lastTx.result, lastTx.x)

\* C11 witness: a round trip through the cached Date of a valid timestamp, made while
\* a Date the caller built and later changed is around
C11_Witness ==
    /\ lastTx.op = "roundTrip" /\ lastTx.cached /\ isValidTimestamp(lastTx.x)
    /\ lastTx.x = 2 /\ strictEquals(lastTx.result, 2)
    /\ \E d \in 1..Len(dates) : ~dates[d].immutable

\* the positions of the array that hold the node
positionsOf(node) == {i \in 1..Len(array) : array[i] = node}

\* C12: a node is never in two places at once: in every state of arraySwap, between
\* its four splices included, no node occurs at two positions of the array, and the
\* value a splice is about to insert is not a node the array still holds.
C12_NodeInOnePlace ==
    /\ \A node \in ArrayNodes : Cardinality(positionsOf(node)) <= 1
    /\ swap.pc = "removed2" => (swap.v2 # undefined => positionsOf(swap.v2) = {})
    /\ swap.pc \in {"removed2", "inserted2"} =>
          (swap.v1 # undefined => positionsOf(swap.v1) = {})

\* C12 witness: between the two insertions of a swap of two different nodes: the
\* second is back in the array, the first is held out of it
C12_Witness ==
    /\ swap.pc = "inserted2"
    /\ swap.index1 < swap.index2
    /\ swap.v1 # undefined /\ swap.v2 # undefined
    /\ positionsOf(swap.v2) = {swap.index1 + 1}
    /\ Len(array) = 2

\* C13: tracked model data changes only inside an action: a direct assignment made
\* while no action context is active fails with ActionContextError and leaves the
\* data unchanged; the same assignment made by a declared model action succeeds,
\* whether or not another action is running.
C13_ChangedOnlyInActions ==
    /\ (lastWrite.op = "assign" /\ lastWrite.depth = 0) =>
          /\ lastWrite.result = ActionContextError
          /\ todo = lastWrite.before
    /\ lastWrite.op = "setDone" =>
          /\ lastWrite.result = "ok"
          /\ todo = [lastWrite.before EXCEPT !.done = lastWrite.value]
    /\ lastWrite.op = "none" => todo = lastWrite.before

\* C13 witness: done was set inside an action, and a direct assignment of false made
\* outside any action was then refused and has left it set
C13_Witness ==
    /\ lastWrite.op = "assign" /\ lastWrite.depth = 0
    /\ lastWrite.name = "done" /\ lastWrite.value = FALSE
    /\ lastWrite.result = ActionContextError
    /\ lastWrite.before.done = TRUE /\ todo.done = TRUE

\* C14: the descriptor of a data model class checks a value against the data type
\* the class declares: when that data type is unchecked the check returns no error
\* for every value and path, otherwise it returns exactly what the data type's own
\* check returns for the same value and the same path.
C14_ChecksAgainstDataType ==
    (lastOp.op = "check" /\ lastOp.result = "returned") =>
        /\ dataType(lastOp.cls) # "none"
        /\ lastOp.error = IF dataType(lastOp.cls) = "unchecked"
                          THEN NoError
                          ELSE check(dataType(lastOp.cls), lastOp.value, lastOp.path)

\* C14 witness: a check through the descriptor of a class with a checked data type has
\* returned the data type's error, at the path it was given
C14_Witness ==
    /\ lastOp.op = "check" /\ lastOp.result = "returned"
    /\ dataType(lastOp.cls) = "number"
    /\ lastOp.path = <<"x">>
    /\ lastOp.error = TypeCheckError(<<"x">>, "number", lastOp.value)

\* C15: when an attach hook throws while registerRootStore(m) runs, the error reaches
\* the caller and the registration is not rolled back: m stays marked as a root store,
\* and a following registerRootStore(m), whatever its options, fails with
\* 'model already marked as root store'.
C15_HookThrowKeepsRegistration ==
    [][/\ \A m \in Models :
            (Called("registerRootStore", m) /\ lastCall'.result = "hook threw")
            => /\ ~isRootStore(rootStores, m)
               /\ isRootStore(rootStores', m)
               /\ getRootStoreEnvValue(rootStores', parent', m) = optsEnv(lastCall'.options)
               /\ \A options \in OptionsSet :
                     registerRootStoreChecks(rootStores', parent', m, options)
                        = "model already marked as root store"
       /\ (/\ lastCall.op = "registerRootStore" /\ lastCall.result = "hook threw"
           /\ Called("registerRootStore", lastCall.node))
            => /\ lastCall'.result = "failure"
               /\ lastCall'.message = "model already marked as root store"
               /\ rootStores' = rootStores]_vars

\* C15 witness: the hook of a child threw during the registration of its parent, after
\* the parent's own hook had run, and the parent is a root store with the env given
C15_Witness ==
    /\ lastCall.op = "registerRootStore" /\ lastCall.result = "hook threw"
    /\ lastCall.node \in lastCall.attached
    /\ Cardinality(lastCall.attached) = 2
    /\ isRootStore(rootStores, lastCall.node)
    /\ rootStores[lastCall.node] = "E1"

====
